---- MODULE Spec2Model ----
(***************************************************************************)
(* Model of the pytest test-filter pipeline of src/conftest.py:            *)
(* TestFilterPipeline (add_stage / clear / apply / stages),                *)
(* DateFilterStage and                                                     *)
(* FixtureParameterGroupingStage.                                          *)
(*                                                                         *)
(* Python strings are tuples of one-character strings, so that str.lower() *)
(* and the `in` substring test are computed and not assumed.  A Python     *)
(* value is a record tagged with its type (t), because the code branches   *)
(* on isinstance().  A dict is the tuple of its entries in insertion       *)
(* order, which is the order .items() / .values() iterate in.              *)
(*                                                                         *)
(* Every record constructor lists its fields in the order in which the     *)
(* field names first occur in this module.  That is the order TLC sorts a  *)
(* record into, so no worker ever reorders a record another one reads.     *)
(***************************************************************************)
EXTENDS Integers, Sequences, FiniteSets, TLC

VARIABLES
    stages,        \* TestFilterPipeline._stages
    life,          \* ghost: how the stage list came to its present content
    added,         \* ghost: the stages passed to add_stage since the last clear
    current_time,  \* the datetime the session injects into DateFilterStage(...)
    items,         \* the collected tests handed to apply (ids into Item)
    op,            \* the most recent pipeline operation
    ret,           \* what that operation returned
    raised,        \* the exception it raised, "" when it returned
    calls          \* the stage invocations of that operation, in order

vars == <<stages, life, added, current_time, items, op, ret, raised, calls>>

\* Bounds of the model
MaxStages == 2
MaxTests == 2

(***************************************************************************)
(* Python values and strings                                               *)
(***************************************************************************)
PyStr(chars) == [t |-> "str", s |-> chars]
PyInt(n) == [t |-> "int", n |-> n]
PyNone == [t |-> "NoneType"]
PyList(xs) == [t |-> "list", xs |-> xs]

UpperAlpha == <<"A","B","C","D","E","F","G","H","I","J","K","L","M",
                "N","O","P","Q","R","S","T","U","V","W","X","Y","Z">>
LowerAlpha == <<"a","b","c","d","e","f","g","h","i","j","k","l","m",
                "n","o","p","q","r","s","t","u","v","w","x","y","z">>

\* str.lower() on one character: the table of the cased ASCII letters
LowerTable == [c \in {UpperAlpha[i] : i \in 1..26} |->
                  LowerAlpha[CHOOSE i \in 1..26 : UpperAlpha[i] = c]]

LowerChar(c) == IF c \in DOMAIN LowerTable THEN LowerTable[c] ELSE c

\* str.lower()
Lower(s) == [i \in 1..Len(s) |-> LowerChar(s[i])]

\* needle in hay  (Python substring test; the empty string is in every string)
Contains(needle, hay) ==
    \E k \in 0..(Len(hay) - Len(needle)) :
        \A i \in 1..Len(needle) : hay[k + i] = needle[i]

Digit == <<"0","1","2","3","4","5","6","7","8","9">>

RECURSIVE Decimal(_)
Decimal(n) == IF n < 10 THEN <<Digit[n + 1]>>
              ELSE Decimal(n \div 10) \o <<Digit[(n % 10) + 1]>>

\* str(value)
StrOf(v) ==
    CASE v.t = "str" -> v.s
      [] v.t = "int" -> IF v.n < 0 THEN <<"-">> \o Decimal(0 - v.n) ELSE Decimal(v.n)
      [] v.t = "NoneType" -> <<"N","o","n","e">>
      [] OTHER -> <<"<",">">>

(***************************************************************************)
(* Test descriptors (pytest.Item): the attributes the stages read.         *)
(*   mark      get_closest_marker('run_days'): absent, or args and kwargs  *)
(*   callspec  None, or its params dict                                    *)
(*   funcargs  None, or the dict of fixture values                         *)
(* A test is identified by its index in Item.                              *)
(***************************************************************************)
PyDict(xs) == [t |-> "dict", xs |-> xs]
CallSpec(params) == [t |-> "CallSpec", params |-> params]
NoMark == [present |-> FALSE, args |-> <<>>, kwargs |-> <<>>]
Mark(args, kwargs) == [present |-> TRUE, args |-> args, kwargs |-> kwargs]

Item == <<
    \* 1
    [name |-> "test_sun", mark |-> Mark(<<PyStr(<<"s","u","n">>)>>, <<>>),
     callspec |-> PyNone, funcargs |-> PyDict(<<>>)],
    \* 2
    [name |-> "test_mon", mark |-> Mark(<<PyStr(<<"m","o","n">>)>>, <<>>),
     callspec |-> CallSpec(PyDict(<<PyStr(<<"q","u","i","c","k","_","m","o","d","e">>)>>)), funcargs |-> PyDict(<<>>)],
    \* 3
    [name |-> "test_tue", mark |-> Mark(<<PyStr(<<"t","u","e">>)>>, <<>>),
     callspec |-> CallSpec(PyDict(<<PyStr(<<"o","t","h","e","r">>)>>)), funcargs |-> PyDict(<<>>)],
    \* 4
    [name |-> "test_wed", mark |-> Mark(<<PyStr(<<"w","e","d">>)>>, <<>>),
     callspec |-> PyNone, funcargs |-> PyDict(<<>>)],
    \* 5
    [name |-> "test_thu", mark |-> Mark(<<PyStr(<<"t","h","u">>)>>, <<>>),
     callspec |-> CallSpec(PyDict(<<PyStr(<<"q","u","i","c","k","_","s","l","o","w","_","c","o","m","b","o">>)>>)), funcargs |-> PyDict(<<>>)],
    \* 6
    [name |-> "test_fri", mark |-> Mark(<<PyStr(<<"f","r","i">>)>>, <<>>),
     callspec |-> PyNone, funcargs |-> PyDict(<<>>)],
    \* 7
    [name |-> "test_sat", mark |-> Mark(<<PyStr(<<"s","a","t">>)>>, <<>>),
     callspec |-> CallSpec(PyDict(<<PyStr(<<"s","l","o","w">>)>>)), funcargs |-> PyDict(<<>>)],
    \* 8
    [name |-> "test_weekend", mark |-> Mark(<<PyStr(<<"w","e","e","k","e","n","d">>)>>, <<>>),
     callspec |-> CallSpec(PyDict(<<PyStr(<<"q","u","i","c","k">>)>>)), funcargs |-> PyDict(<<>>)],
    \* 9
    [name |-> "test_plain", mark |-> NoMark,
     callspec |-> PyNone, funcargs |-> PyDict(<<>>)],
    \* 10
    [name |-> "test_funday", mark |-> Mark(<<PyStr(<<"f","u","n","d","a","y">>)>>, <<>>),
     callspec |-> PyNone, funcargs |-> PyDict(<<>>)],
    \* 11
    [name |-> "test_case", mark |-> Mark(<<PyStr(<<"M","O","N">>), PyStr(<<"W","e","d","n","e","s","d","a","y">>)>>, <<>>),
     callspec |-> PyNone, funcargs |-> PyDict(<<>>)],
    \* 12
    [name |-> "test_days_kw", mark |-> Mark(<<>>, <<[key |-> <<"d","a","y","s">>, value |-> PyList(<<PyStr(<<"t","u","e">>), PyStr(<<"w","e","e","k","e","n","d">>)>>)]>>),
     callspec |-> PyNone, funcargs |-> PyDict(<<>>)],
    \* 13
    [name |-> "test_both", mark |-> Mark(<<PyStr(<<"s","a","t">>)>>, <<[key |-> <<"d","a","y","s">>, value |-> PyList(<<PyStr(<<"S","u","n","d","a","y">>), PyStr(<<"f","u","n","d","a","y">>)>>)]>>),
     callspec |-> PyNone, funcargs |-> PyDict(<<>>)],
    \* 14
    [name |-> "test_malformed", mark |-> Mark(<<PyInt(5)>>, <<[key |-> <<"d","a","y","s">>, value |-> PyStr(<<"m","o","n">>)]>>),
     callspec |-> PyNone, funcargs |-> PyDict(<<>>)],
    \* 15
    [name |-> "test_mode[quick_mode]", mark |-> NoMark,
     callspec |-> CallSpec(PyDict(<<PyStr(<<"q","u","i","c","k","_","m","o","d","e">>)>>)), funcargs |-> PyDict(<<>>)],
    \* 16
    [name |-> "test_mode[quick_slow_combo]", mark |-> NoMark,
     callspec |-> CallSpec(PyDict(<<PyStr(<<"q","u","i","c","k","_","s","l","o","w","_","c","o","m","b","o">>)>>)), funcargs |-> PyDict(<<>>)],
    \* 17
    [name |-> "test_mode[other]", mark |-> NoMark,
     callspec |-> CallSpec(PyDict(<<PyStr(<<"o","t","h","e","r">>)>>)), funcargs |-> PyDict(<<>>)],
    \* 18
    [name |-> "test_two[quick-quick_mode]", mark |-> NoMark,
     callspec |-> CallSpec(PyDict(<<PyStr(<<"q","u","i","c","k">>), PyStr(<<"q","u","i","c","k","_","m","o","d","e">>)>>)), funcargs |-> PyDict(<<>>)],
    \* 19
    [name |-> "test_fixture_only", mark |-> NoMark,
     callspec |-> PyNone, funcargs |-> PyDict(<<PyStr(<<"s","l","o","w","_","d","e","t","a","i","l","e","d">>)>>)],
    \* 20
    [name |-> "test_upper[QUICK]", mark |-> NoMark,
     callspec |-> CallSpec(PyDict(<<PyStr(<<"Q","U","I","C","K">>)>>)), funcargs |-> PyDict(<<PyStr(<<"Q","u","i","c","k">>)>>)],
    \* 21
    [name |-> "test_number[5]", mark |-> NoMark,
     callspec |-> CallSpec(PyDict(<<PyInt(5)>>)), funcargs |-> PyNone],
    \* 22
    [name |-> "test_weekend_slow[slow]", mark |-> Mark(<<PyStr(<<"W","e","e","k","e","n","d">>)>>, <<>>),
     callspec |-> CallSpec(PyDict(<<PyStr(<<"s","l","o","w">>)>>)), funcargs |-> PyDict(<<>>)],
    \* 23
    [name |-> "test_params_not_dict", mark |-> NoMark,
     callspec |-> CallSpec(PyStr(<<"s","l","o","w">>)), funcargs |-> PyDict(<<>>)],
    \* 24
    [name |-> "test_fixture_adds[other]", mark |-> NoMark,
     callspec |-> CallSpec(PyDict(<<PyStr(<<"o","t","h","e","r">>)>>)), funcargs |-> PyDict(<<PyStr(<<"q","u","i","c","k">>)>>)],
    \* 25
    [name |-> "test_all_malformed", mark |-> Mark(<<PyNone>>, <<[key |-> <<"D","A","Y","S">>, value |-> PyList(<<PyInt(3), PyNone>>)], [key |-> <<"w","h","e","n">>, value |-> PyList(<<PyStr(<<"m","o","n">>)>>)]>>),
     callspec |-> PyNone, funcargs |-> PyDict(<<>>)],
    \* 26
    [name |-> "test_mixed_malformed", mark |-> Mark(<<PyInt(2), PyStr(<<"w","e","d">>)>>, <<[key |-> <<"d","a","y","s">>, value |-> PyList(<<PyNone, PyStr(<<"f","r","i">>)>>)], [key |-> <<"w","h","e","n">>, value |-> PyList(<<PyStr(<<"m","o","n">>)>>)]>>),
     callspec |-> PyNone, funcargs |-> PyDict(<<>>)],
    \* 27
    [name |-> "test_MONDAY", mark |-> Mark(<<PyStr(<<"M","O","N","D","A","Y">>)>>, <<>>),
     callspec |-> PyNone, funcargs |-> PyDict(<<>>)],
    \* 28
    [name |-> "test_Mon", mark |-> Mark(<<PyStr(<<"M","o","n">>)>>, <<>>),
     callspec |-> PyNone, funcargs |-> PyDict(<<>>)]
>>

\* The collected lists are drawn from one family of descriptors at a time.
Families == {1..4, 5..8, 9..12, 13..16, 17..20, 21..24, 25..28}

ListsOver(F) ==
    UNION {{l \in [1..n -> F] : \A i, j \in 1..n : l[i] = l[j] => i = j}
           : n \in 0..MaxTests}

Inputs == UNION {ListsOver(F) : F \in Families}

(***************************************************************************)
(* DateFilterStage                                                         *)
(***************************************************************************)
\* The injected datetime is abstracted to the day of the week it falls on.
DayNames == <<"Monday", "Tuesday", "Wednesday", "Thursday", "Friday",
              "Saturday", "Sunday">>
Days == {DayNames[i] : i \in 1..7}

\* datetime.weekday(): Monday is 0 and Sunday is 6
weekday(dt) == (CHOOSE i \in 1..7 : DayNames[i] = dt) - 1

\* DateFilterStage.WEEKDAY_MAP, as its (key, value) entries
WEEKDAY_MAP == {
    <<<<"s","u","n">>, 0>>, <<<<"s","u","n","d","a","y">>, 0>>,
    <<<<"m","o","n">>, 1>>, <<<<"m","o","n","d","a","y">>, 1>>,
    <<<<"t","u","e">>, 2>>, <<<<"t","u","e","s","d","a","y">>, 2>>,
    <<<<"w","e","d">>, 3>>, <<<<"w","e","d","n","e","s","d","a","y">>, 3>>,
    <<<<"t","h","u">>, 4>>, <<<<"t","h","u","r","s","d","a","y">>, 4>>,
    <<<<"f","r","i">>, 5>>, <<<<"f","r","i","d","a","y">>, 5>>,
    <<<<"s","a","t">>, 6>>, <<<<"s","a","t","u","r","d","a","y">>, 6>> }

WEEKEND_DAYS == {5, 6}

s_weekend == <<"w","e","e","k","e","n","d">>
s_days == <<"d","a","y","s">>

\* mutant: str.lower() is not applied, the token is looked up as written
token_days_case_sensitive(arg) ==
    IF arg.t = "str"
    THEN LET arg_lower == arg.s IN
         IF arg_lower = s_weekend THEN WEEKEND_DAYS
         ELSE IF \E e \in WEEKDAY_MAP : e[1] = arg_lower
              THEN {(CHOOSE e \in WEEKDAY_MAP : e[1] = arg_lower)[2]}
              ELSE {}
    ELSE {}

\* one token of the marker: the body of the loops over args and over days
token_days(arg) ==
    IF arg.t = "str"
    THEN LET arg_lower == Lower(arg.s) IN
         IF arg_lower = s_weekend THEN WEEKEND_DAYS
         ELSE IF \E e \in WEEKDAY_MAP : e[1] = arg_lower
              THEN {(CHOOSE e \in WEEKDAY_MAP : e[1] = arg_lower)[2]}
              ELSE {}
    ELSE {}

\* mutant: the list under any keyword is read, not only the one under days
kwarg_days_any_key(kw) ==
    IF kw.value.t \in {"list", "tuple"}
    THEN UNION {token_days(kw.value.xs[i]) : i \in 1..Len(kw.value.xs)}
    ELSE {}

\* the days one keyword argument adds
kwarg_days(kw) ==
    IF Lower(kw.key) = s_days /\ kw.value.t \in {"list", "tuple"}
    THEN UNION {token_days(kw.value.xs[i]) : i \in 1..Len(kw.value.xs)}
    ELSE {}

\* allowed_days at the end of _should_run_today
allowed_days(mark) ==
    UNION {token_days(mark.args[i]) : i \in 1..Len(mark.args)}
    \cup UNION {kwarg_days(mark.kwargs[i]) : i \in 1..Len(mark.kwargs)}

\* mutant: a test without the run_days marker is never run
should_run_today_marker_required(test, current_day) ==
    LET run_days_mark == Item[test].mark IN
    IF ~run_days_mark.present THEN FALSE
    ELSE \E allowed \in {allowed_days(run_days_mark)} :
             IF allowed # {} THEN current_day \in allowed ELSE TRUE

\* mutant: an empty allowed_days set excludes the test on every day
should_run_today_empty_excludes(test, current_day) ==
    LET run_days_mark == Item[test].mark IN
    IF ~run_days_mark.present THEN TRUE
    ELSE current_day \in allowed_days(run_days_mark)

\* DateFilterStage._should_run_today(test, current_day)
should_run_today(test, current_day) ==
    LET run_days_mark == Item[test].mark IN
    IF ~run_days_mark.present THEN TRUE
    ELSE \E allowed \in {allowed_days(run_days_mark)} :
             IF allowed # {} THEN current_day \in allowed ELSE TRUE

\* DateFilterStage.apply(tests): the tests kept, in input order
RECURSIVE filter_loop(_, _)
filter_loop(tests, current_day) ==
    IF tests = <<>> THEN <<>>
    ELSE (IF should_run_today(Head(tests), current_day)
          THEN <<Head(tests)>> ELSE <<>>)
         \o filter_loop(Tail(tests), current_day)

\* mutant: the tests that should not run are removed from the list given,
\* and that list is returned
DateFilterStage_apply_in_place(stage, tests) ==
    LET current_day == weekday(stage.current_time) IN
    [output |-> PyList(filter_loop(tests, current_day)),
     markers |-> <<>>,
     tests_after |-> filter_loop(tests, current_day),
     same_object |-> TRUE]

\* DateFilterStage.apply(tests)
\*   output       the list returned: filtered_tests, a list created by apply
\*   markers      the add_marker requests made: none
\*   tests_after  the list given, as it is when apply returns
\*   same_object  whether the list returned is the list given
DateFilterStage_apply(stage, tests) ==
    LET current_day == weekday(stage.current_time) IN
    [output |-> PyList(filter_loop(tests, current_day)),
     markers |-> <<>>,
     tests_after |-> tests,
     same_object |-> FALSE]

(***************************************************************************)
(* FixtureParameterGroupingStage                                           *)
(***************************************************************************)
\* group_mappings dicts: entries (group name, identifiers) in insertion order
MappingSpecExample ==
    << [name |-> "fast", identifiers |-> <<<<"q","u","i","c","k">>>>],
       [name |-> "slow", identifiers |-> <<<<"s","l","o","w">>>>] >>
MappingOverlap ==
    << [name |-> "fast", identifiers |-> <<<<"Q","U","I","C","K">>, <<"m","o","d","e","_","a">>>>],
       [name |-> "smoke", identifiers |-> <<<<"q","u","i","c","k">>, <<"5">>>>] >>
Mappings == {MappingSpecExample, MappingOverlap}

group_names(group_mappings) ==
    {group_mappings[i].name : i \in 1..Len(group_mappings)}

\* parameter_values as _find_matching_groups collects them
parameter_values(test) ==
    LET callspec == Item[test].callspec
        funcargs == Item[test].funcargs
        params == callspec.params
    IN  (IF callspec.t # "NoneType"
         THEN (IF params.t = "dict" THEN params.xs
               \* list(params): the elements of an iterable, nothing when it raises
               ELSE IF params.t \in {"list", "tuple"} THEN params.xs
               ELSE IF params.t = "str"
                    THEN [i \in 1..Len(params.s) |-> PyStr(<<params.s[i]>>)]
               ELSE <<>>)
         ELSE <<>>)
        \o (IF funcargs.t = "dict" THEN funcargs.xs ELSE <<>>)

\* any(identifier.lower() in str(param_value).lower() for identifier in identifiers)
any_identifier(identifiers, param_value) ==
    \E i \in 1..Len(identifiers) :
        Contains(Lower(identifiers[i]), Lower(StrOf(param_value)))

\* the inner loop over group_mappings.items() for one param_value
RECURSIVE groups_of_value(_, _)
groups_of_value(group_mappings, param_value) ==
    IF group_mappings = <<>> THEN <<>>
    ELSE (IF any_identifier(Head(group_mappings).identifiers, param_value)
          THEN <<Head(group_mappings).name>> ELSE <<>>)
         \o groups_of_value(Tail(group_mappings), param_value)

\* the outer loop over parameter_values
RECURSIVE matching_loop(_, _)
matching_loop(values, group_mappings) ==
    IF values = <<>> THEN <<>>
    ELSE groups_of_value(group_mappings, Head(values))
         \o matching_loop(Tail(values), group_mappings)

\* mutant: single-group policy, only the first matching group is returned
find_first_group(test, group_mappings) ==
    LET all == matching_loop(parameter_values(test), group_mappings) IN
    IF all = <<>> THEN <<>> ELSE <<all[1]>>

\* FixtureParameterGroupingStage._find_matching_groups(test)
find_matching_groups(test, group_mappings) ==
    matching_loop(parameter_values(test), group_mappings)

\* for group_name in assigned_groups: groups[group_name].append(test)
RECURSIVE append_to_groups(_, _, _)
append_to_groups(groups, assigned_groups, test) ==
    IF assigned_groups = <<>> THEN groups
    ELSE append_to_groups(
             [groups EXCEPT ![Head(assigned_groups)] = Append(@, test)],
             Tail(assigned_groups), test)

\* the loop of FixtureParameterGroupingStage.apply over tests; acc holds the
\* locals groups and unmatched and the add_marker requests made so far
RECURSIVE grouping_loop(_, _, _)
grouping_loop(tests, group_mappings, acc) ==
    IF tests = <<>> THEN acc
    ELSE LET test == Head(tests)
             assigned_groups == find_matching_groups(test, group_mappings)
         IN  grouping_loop(Tail(tests), group_mappings,
                 IF assigned_groups # <<>>
                 THEN [markers |-> acc.markers \o
                           [i \in 1..Len(assigned_groups) |->
                               [test |-> test, marker |-> assigned_groups[i]]],
                       groups |-> append_to_groups(acc.groups, assigned_groups, test),
                       unmatched |-> acc.unmatched]
                 ELSE [acc EXCEPT !.unmatched = Append(@, test)])

\* mutant: a group's list is created when its first test is appended, so a
\* group without a member is missing from groups
FixtureParameterGroupingStage_apply_lazy_groups(stage, tests) ==
    LET acc == grouping_loop(tests, stage.group_mappings,
                   [markers |-> <<>>,
                    groups |-> [g \in group_names(stage.group_mappings) |-> <<>>],
                    unmatched |-> <<>>])
    IN  [output |-> PyList(tests),
         markers |-> acc.markers,
         tests_after |-> tests,
         same_object |-> TRUE,
         groups |-> [g \in {h \in DOMAIN acc.groups : acc.groups[h] # <<>>} |->
                        acc.groups[g]],
         unmatched |-> acc.unmatched]

\* FixtureParameterGroupingStage.apply(tests): builds groups and unmatched,
\* requests the markers, and returns the list it was given
FixtureParameterGroupingStage_apply(stage, tests) ==
    LET acc == grouping_loop(tests, stage.group_mappings,
                   [markers |-> <<>>,
                    groups |-> [g \in group_names(stage.group_mappings) |-> <<>>],
                    unmatched |-> <<>>])
    IN  [output |-> PyList(tests),
         markers |-> acc.markers,
         tests_after |-> tests,
         same_object |-> TRUE,
         groups |-> acc.groups,
         unmatched |-> acc.unmatched]

(***************************************************************************)
(* TestFilterPipeline                                                      *)
(***************************************************************************)
\* PipelineStep.apply, dispatched on the stage's class
stage_apply(stage, tests) ==
    IF stage.kind = "DateFilterStage"
    THEN DateFilterStage_apply(stage, tests)
    ELSE FixtureParameterGroupingStage_apply(stage, tests)

\* mutant: every stage is given the original tests, not the previous result
RECURSIVE stage_loop_unthreaded(_, _, _)
stage_loop_unthreaded(stgs, result, done) ==
    IF stgs = <<>> THEN done
    ELSE stage_loop_unthreaded(Tail(stgs), result,
             Append(done, [stage |-> Head(stgs),
                           result |-> stage_apply(Head(stgs), result.xs),
                           input |-> result.xs]))

\* for stage in self._stages: result = stage.apply(result)
\* returns the record of every stage call, in order; the last output is the result
RECURSIVE stage_loop(_, _, _)
stage_loop(stgs, result, done) ==
    IF stgs = <<>> THEN done
    ELSE LET r == stage_apply(Head(stgs), result.xs) IN
         stage_loop(Tail(stgs), r.output,
                    Append(done, [stage |-> Head(stgs), result |-> r,
                                  input |-> result.xs]))

\* TestFilterPipeline.apply(tests)
TestFilterPipeline_apply(stgs, tests) ==
    IF stgs = <<>>
    THEN \* self._build_stages_from_config() is not defined on the class
         [ret |-> PyNone, raised |-> "AttributeError", calls |-> <<>>]
    ELSE LET done == stage_loop(stgs, PyList(tests), <<>>) IN
         [ret |-> done[Len(done)].result.output, raised |-> "", calls |-> done]

DateFilterStage(t) == [current_time |-> t, kind |-> "DateFilterStage"]
FixtureParameterGroupingStage(m) ==
    [group_mappings |-> m, kind |-> "FixtureParameterGroupingStage"]

Self == [t |-> "TestFilterPipeline"]

TypeOK ==
    /\ Len(stages) <= MaxStages
    /\ life \in {"fresh", "built", "cleared", "cleared_empty"}
    /\ current_time \in Days
    /\ items \in Inputs
    /\ op \in {"init", "add_stage", "clear", "apply", "stages", "list_change"}
    /\ raised \in {"", "AttributeError"}

\* pipeline = TestFilterPipeline()
Init ==
    /\ stages = <<>>
    /\ life = "fresh"
    /\ added = <<>>
    /\ current_time \in Days
    /\ items \in Inputs
    /\ op = "init"
    /\ ret = PyNone
    /\ raised = ""
    /\ calls = <<>>

\* mutant: the stage is inserted at the front of the list
add_stage_at_front(stage) ==
    /\ Len(stages) < MaxStages
    /\ stages' = <<stage>> \o stages
    /\ life' = "built"
    /\ added' = Append(added, stage)
    /\ op' = "add_stage"
    /\ ret' = Self
    /\ raised' = ""
    /\ calls' = <<>>
    /\ UNCHANGED <<current_time, items>>

\* pipeline.add_stage(stage)
add_stage(stage) ==
    /\ Len(stages) < MaxStages
    /\ stages' = Append(stages, stage)
    /\ life' = "built"
    /\ added' = Append(added, stage)
    /\ op' = "add_stage"
    /\ ret' = Self
    /\ raised' = ""
    /\ calls' = <<>>
    /\ UNCHANGED <<current_time, items>>

\* pipeline.clear()
clear ==
    /\ stages' = <<>>
    /\ life' = IF stages # <<>> \/ life = "cleared" THEN "cleared" ELSE "cleared_empty"
    /\ added' = <<>>
    /\ op' = "clear"
    /\ ret' = PyNone
    /\ raised' = ""
    /\ calls' = <<>>
    /\ UNCHANGED <<current_time, items>>

\* pipeline.apply(items)
apply ==
    \E r \in {TestFilterPipeline_apply(stages, items)} :
    /\ op' = "apply"
    /\ ret' = r.ret
    /\ raised' = r.raised
    /\ calls' = r.calls
    /\ UNCHANGED <<stages, life, added, current_time, items>>

\* mutant: the accessor returns the stage list itself
stages_property_no_copy ==
    /\ op' = "stages"
    /\ ret' = [t |-> "list", xs |-> stages, same_object |-> TRUE]
    /\ raised' = ""
    /\ calls' = <<>>
    /\ UNCHANGED <<stages, life, added, current_time, items>>

\* pipeline.stages: return self._stages.copy()
\*   same_object  whether the list returned is self._stages
stages_property ==
    /\ op' = "stages"
    /\ ret' = [t |-> "list", xs |-> stages, same_object |-> FALSE]
    /\ raised' = ""
    /\ calls' = <<>>
    /\ UNCHANGED <<stages, life, added, current_time, items>>

\* The caller changes the list that pipeline.stages returned: returned.clear()
\* or returned.append(stage).  self._stages is written only when the list
\* returned is self._stages.
change_returned_list ==
    /\ op = "stages"
    /\ \E new \in {<<>>, Append(ret.xs, DateFilterStage(current_time))} :
           /\ new # ret.xs
           /\ Len(new) <= MaxStages
           /\ ret' = [ret EXCEPT !.xs = new]
           /\ stages' = IF ret.same_object THEN new ELSE stages
    /\ op' = "list_change"
    /\ raised' = ""
    /\ calls' = <<>>
    /\ UNCHANGED <<life, added, current_time, items>>

AddDateFilterStage == add_stage(DateFilterStage(current_time))
AddGroupingStage == \E m \in Mappings : add_stage(FixtureParameterGroupingStage(m))

Next ==
    \/ AddDateFilterStage
    \/ AddGroupingStage
    \/ clear
    \/ apply
    \/ stages_property
    \/ change_returned_list

Spec == Init /\ [][Next]_vars

(***************************************************************************)
(* Vocabulary of the properties                                            *)
(***************************************************************************)
InSeq(x, seq) == \E i \in 1..Len(seq) : seq[i] = x
Count(x, seq) == Cardinality({i \in 1..Len(seq) : seq[i] = x})

\* The names of each day of the week, in the order of DayNames
WeekdayTokens == <<
    {<<"m","o","n">>, <<"m","o","n","d","a","y">>},
    {<<"t","u","e">>, <<"t","u","e","s","d","a","y">>},
    {<<"w","e","d">>, <<"w","e","d","n","e","s","d","a","y">>},
    {<<"t","h","u">>, <<"t","h","u","r","s","d","a","y">>},
    {<<"f","r","i">>, <<"f","r","i","d","a","y">>},
    {<<"s","a","t">>, <<"s","a","t","u","r","d","a","y">>},
    {<<"s","u","n">>, <<"s","u","n","d","a","y">>} >>

IsWeekdayToken(arg) ==
    arg.t = "str" /\ \E i \in 1..7 : Lower(arg.s) \in WeekdayTokens[i]

\* the day of the week a weekday token names
NamedDay(arg) == DayNames[CHOOSE i \in 1..7 : Lower(arg.s) \in WeekdayTokens[i]]

\* run_days(d) with one weekday token and nothing else
SingleWeekdayMark(test) ==
    LET m == Item[test].mark IN
    m.present /\ Len(m.args) = 1 /\ m.kwargs = <<>> /\ IsWeekdayToken(m.args[1])

\* run_days("weekend") and nothing else
WeekendOnlyMark(test) ==
    LET m == Item[test].mark IN
    m.present /\ Len(m.args) = 1 /\ m.kwargs = <<>>
    /\ m.args[1].t = "str" /\ m.args[1].s = s_weekend

DateCalls == {k \in 1..Len(calls) : calls[k].stage.kind = "DateFilterStage"}
GroupingCalls ==
    {k \in 1..Len(calls) : calls[k].stage.kind = "FixtureParameterGroupingStage"}

\* the test has a resolved-parametrization map (callspec.params is a dict)
HasParamsMap(test) ==
    Item[test].callspec.t = "CallSpec" /\ Item[test].callspec.params.t = "dict"

\* the values of the fixture-value map (funcargs), none when there is no map
FixtureValues(test) ==
    IF Item[test].funcargs.t = "dict" THEN Item[test].funcargs.xs ELSE <<>>

\* The candidate values of a test: the values of the parametrization map when
\* the test has one, the values of the fixture-value map otherwise.
CandidateValues(test) ==
    IF HasParamsMap(test) THEN Item[test].callspec.params.xs
    ELSE FixtureValues(test)

\* some value of the list contains, case-insensitively, some identifier of g
ValuesMatch(values, g) ==
    \E i \in 1..Len(values), j \in 1..Len(g.identifiers) :
        Contains(Lower(g.identifiers[j]), Lower(StrOf(values[i])))

\* test matches group entry g: some candidate value contains some identifier
Matches(test, g) == ValuesMatch(CandidateValues(test), g)

MatchedGroups(test, group_mappings) ==
    {group_mappings[i].name : i \in {j \in 1..Len(group_mappings) :
                                        Matches(test, group_mappings[j])}}

\* stage k's output when the stages are applied by hand, one after the other
RECURSIVE ByHand(_)
ByHand(k) == IF k = 0 THEN PyList(items)
             ELSE stage_apply(stages[k], ByHand(k - 1).xs).output

(***************************************************************************)
(* Properties                                                              *)
(***************************************************************************)

\* C1: a test marked run_days(d) with a single weekday token d is kept by
\* DateFilterStage.apply iff the injected current day is the weekday d names.
C1_SingleWeekdayRunsOnItsDay ==
    \A k \in DateCalls :
        \A i \in 1..Len(calls[k].input) :
            LET test == calls[k].input[i] IN
            SingleWeekdayMark(test) =>
                (InSeq(test, calls[k].result.output.xs)
                 <=> calls[k].stage.current_time = NamedDay(Item[test].mark.args[1]))

\* C2: a test marked run_days("weekend") only is kept by DateFilterStage.apply
\* iff the injected current day is Friday or Saturday.
C2_WeekendIsFridaySaturday ==
    \A k \in DateCalls :
        \A i \in 1..Len(calls[k].input) :
            LET test == calls[k].input[i] IN
            WeekendOnlyMark(test) =>
                (InSeq(test, calls[k].result.output.xs)
                 <=> calls[k].stage.current_time \in {"Friday", "Saturday"})

\* C3: apply on a freshly constructed pipeline with no stages returns normally
\* and returns the input list unchanged.
C3_EmptyPipelineIsIdentity ==
    (op = "apply" /\ life = "fresh") =>
        (raised = "" /\ ret = PyList(items))

\* C4: after add_stage calls, clear() and then apply(tests) returns tests
\* unchanged: no stage is invoked and nothing is raised.
C4_ClearThenApplyIsIdentity ==
    (op = "apply" /\ life \in {"cleared", "cleared_empty"}) =>
        (raised = "" /\ ret = PyList(items) /\ calls = <<>>)

\* C5: with n >= 1 stages, apply invokes every stage exactly once, in insertion
\* order, stage i+1 on stage i's output, and returns the last output verbatim:
\* the same as applying the stages by hand in sequence.
C5_ApplyComposesInOrder ==
    (op = "apply" /\ stages # <<>>) =>
        /\ raised = ""
        /\ Len(calls) = Len(stages)
        /\ \A k \in 1..Len(stages) :
              /\ calls[k].stage = stages[k]
              /\ calls[k].input = ByHand(k - 1).xs
              /\ calls[k].result.output = ByHand(k)
        /\ ret = ByHand(Len(stages))

C5_Witness ==
    /\ op = "apply" /\ raised = ""
    /\ Len(stages) = 2
    /\ stages[1].kind = "DateFilterStage"
    /\ stages[2].kind = "FixtureParameterGroupingStage"
    /\ Len(items) = 2
    /\ Len(ret.xs) = 1
    /\ calls[2].input = ret.xs
    /\ calls[2].result.markers # <<>>

\* C6: the grouping stage partitions its input: every input test is either in
\* unmatched or in at least one group's list, never both and never neither, and
\* a test none of whose candidate values contains an identifier is in unmatched only.
\* The candidate values are CandidateValues: the parametrization map's values,
\* or the fixture values of a test that has no such map.
C6_GroupingPartition ==
    \A k \in GroupingCalls :
        LET r == calls[k].result
            gm == calls[k].stage.group_mappings
        IN  \A i \in 1..Len(calls[k].input) :
                LET test == calls[k].input[i]
                    grouped == \E g \in DOMAIN r.groups : InSeq(test, r.groups[g])
                IN  /\ InSeq(test, r.unmatched) <=> ~grouped
                    /\ MatchedGroups(test, gm) = {} =>
                           (InSeq(test, r.unmatched) /\ ~grouped)

\* C7: an input test appears at most once in any single group's list, also
\* when several of its candidate values match that group.
C7_NoDuplicateInGroup ==
    \A k \in GroupingCalls :
        \A g \in DOMAIN calls[k].result.groups :
            \A i \in 1..Len(calls[k].input) :
                Count(calls[k].input[i], calls[k].result.groups[g]) <= 1

\* C8: a test is recorded under group g iff some candidate value of the test
\* contains, case-insensitively, some identifier of g as a substring.
C8_MatchRule ==
    \A k \in GroupingCalls :
        LET gm == calls[k].stage.group_mappings IN
        \A i \in 1..Len(calls[k].input), j \in 1..Len(gm) :
            InSeq(calls[k].input[i], calls[k].result.groups[gm[j].name])
            <=> Matches(calls[k].input[i], gm[j])

\* C9: a test that matches several groups is recorded under every one of them,
\* never under a single one only, also when the groups' identifiers overlap.
C9_AllMatchingGroups ==
    \A k \in GroupingCalls :
        LET gm == calls[k].stage.group_mappings IN
        \A i \in 1..Len(calls[k].input) :
            LET test == calls[k].input[i] IN
            Cardinality(MatchedGroups(test, gm)) >= 2 =>
                {g \in DOMAIN calls[k].result.groups :
                    InSeq(test, calls[k].result.groups[g])} = MatchedGroups(test, gm)

C9_Witness ==
    \E k \in GroupingCalls :
        /\ calls[k].stage.group_mappings = MappingSpecExample
        /\ \E i \in 1..Len(calls[k].input) :
               LET test == calls[k].input[i] IN
               /\ parameter_values(test) = <<PyStr(<<"q","u","i","c","k","_","s","l","o","w","_","c","o","m","b","o">>)>>
               /\ InSeq(test, calls[k].result.groups["fast"])
               /\ InSeq(test, calls[k].result.groups["slow"])

\* C10: FixtureParameterGroupingStage.apply returns a Grouping Result (the
\* per-group lists and the unmatched list), and so does a pipeline whose last
\* stage is the grouping stage.
C10_GroupingReturnsGroupingResult ==
    /\ \A k \in GroupingCalls :
           /\ calls[k].result.output.t = "FixtureParameterGroups"
           /\ calls[k].result.output # PyList(calls[k].input)
    /\ (op = "apply" /\ stages # <<>>
        /\ stages[Len(stages)].kind = "FixtureParameterGroupingStage")
           => ret.t = "FixtureParameterGroups"

\* C11: a test that has a parametrization map is matched on that map's values
\* only, so a fixture value never adds a group to it; the fixture values are
\* the candidates only of a test that has no parametrization map.
C11_ParamsMapShadowsFixtureValues ==
    \A k \in GroupingCalls :
        LET gm == calls[k].stage.group_mappings IN
        \A i \in 1..Len(calls[k].input), j \in 1..Len(gm) :
            LET test == calls[k].input[i] IN
            /\ HasParamsMap(test) =>
                   (InSeq(test, calls[k].result.groups[gm[j].name])
                    <=> ValuesMatch(Item[test].callspec.params.xs, gm[j]))
            /\ Item[test].callspec.t = "NoneType" =>
                   (InSeq(test, calls[k].result.groups[gm[j].name])
                    <=> ValuesMatch(FixtureValues(test), gm[j]))

\* C12: after the grouping stage's apply, a tag named g has been requested on
\* test t iff t matched g; a test in the unmatched list has no tag request,
\* and every requested tag is a group name of the Group Mapping.
C12_TagsExactlyMatchedGroups ==
    \A k \in GroupingCalls :
        LET r == calls[k].result
            gm == calls[k].stage.group_mappings
        IN  /\ \A i \in 1..Len(calls[k].input), j \in 1..Len(gm) :
                   (\E m \in 1..Len(r.markers) :
                        /\ r.markers[m].test = calls[k].input[i]
                        /\ r.markers[m].marker = gm[j].name)
                   <=> Matches(calls[k].input[i], gm[j])
            /\ \A m \in 1..Len(r.markers) :
                   /\ r.markers[m].marker \in group_names(gm)
                   /\ ~InSeq(r.markers[m].test, r.unmatched)

\* C13: DateFilterStage.apply keeps every input test that carries no run_days
\* annotation, whatever the injected current day is.
C13_UnannotatedAlwaysIncluded ==
    \A k \in DateCalls :
        \A i \in 1..Len(calls[k].input) :
            ~Item[calls[k].input[i]].mark.present =>
                InSeq(calls[k].input[i], calls[k].result.output.xs)

C13_Witness ==
    \E k \in DateCalls :
        /\ Len(calls[k].input) = 2
        /\ Len(calls[k].result.output.xs) = 1
        /\ ~Item[calls[k].result.output.xs[1]].mark.present
        /\ \E i \in 1..2 : Item[calls[k].input[i]].mark.present

\* the run_days annotation of the test has at least one token, and every
\* token of it (positional or in a days list) is a string that names neither
\* a weekday nor the weekend
IsUnrecognizedToken(arg) ==
    arg.t = "str" /\ ~IsWeekdayToken(arg) /\ Lower(arg.s) # s_weekend

UnrecognizedOnlyMark(test) ==
    LET m == Item[test].mark IN
    /\ m.present
    /\ Len(m.args) + Len(m.kwargs) > 0
    /\ \A i \in 1..Len(m.args) : IsUnrecognizedToken(m.args[i])
    /\ \A i \in 1..Len(m.kwargs) :
           /\ Lower(m.kwargs[i].key) = s_days
           /\ m.kwargs[i].value.t \in {"list", "tuple"}
           /\ Len(m.kwargs[i].value.xs) > 0
           /\ \A j \in 1..Len(m.kwargs[i].value.xs) :
                  IsUnrecognizedToken(m.kwargs[i].value.xs[j])

\* C14: a test whose run_days annotation holds unrecognized tokens only (as in
\* run_days("funday")) is kept by DateFilterStage.apply on every current day,
\* like a test with no annotation.
C14_UnrecognizedOnlyAlwaysIncluded ==
    \A k \in DateCalls :
        \A i \in 1..Len(calls[k].input) :
            UnrecognizedOnlyMark(calls[k].input[i]) =>
                InSeq(calls[k].input[i], calls[k].result.output.xs)

C14_Witness ==
    \E k \in DateCalls :
        /\ Len(calls[k].input) = 2
        /\ Len(calls[k].result.output.xs) = 1
        /\ UnrecognizedOnlyMark(calls[k].result.output.xs[1])
        /\ Item[calls[k].result.output.xs[1]].mark.args = <<PyStr(<<"f","u","n","d","a","y">>)>>

\* The days a token of the annotation names: "weekend" is Friday and Saturday,
\* a weekday name or abbreviation is that weekday, anything else is no day.
TokenDayNames(arg) ==
    IF arg.t # "str" THEN {}
    ELSE IF Lower(arg.s) = s_weekend THEN {"Friday", "Saturday"}
    ELSE IF IsWeekdayToken(arg) THEN {NamedDay(arg)}
    ELSE {}

\* The allowed days of an annotation: the days its positional arguments name
\* and the days the entries of its days list name.
AllowedDayNames(m) ==
    UNION {TokenDayNames(m.args[i]) : i \in 1..Len(m.args)}
    \cup UNION {UNION {TokenDayNames(m.kwargs[i].value.xs[j]) :
                         j \in 1..Len(m.kwargs[i].value.xs)} :
                 i \in {h \in 1..Len(m.kwargs) :
                           /\ Lower(m.kwargs[h].key) = s_days
                           /\ m.kwargs[h].value.t \in {"list", "tuple"}}}

\* The test is eligible on day dt: it has no annotation, or its allowed days
\* are empty, or dt is one of them.
Eligible(test, dt) ==
    \/ ~Item[test].mark.present
    \/ AllowedDayNames(Item[test].mark) = {}
    \/ dt \in AllowedDayNames(Item[test].mark)

\* the eligible tests of a list, in the order of the list
RECURSIVE EligibleSubSeq(_, _)
EligibleSubSeq(tests, dt) ==
    IF tests = <<>> THEN <<>>
    ELSE (IF Eligible(Head(tests), dt) THEN <<Head(tests)>> ELSE <<>>)
         \o EligibleSubSeq(Tail(tests), dt)

\* C15: DateFilterStage.apply returns the sub-sequence of its input made of
\* the tests eligible on the current day: each of them as many times as in the
\* input, in the input's order, and no other test.
C15_OutputIsEligibleSubSequence ==
    \A k \in DateCalls :
        calls[k].result.output =
            PyList(EligibleSubSeq(calls[k].input, calls[k].stage.current_time))

\* C16: on an empty input DateFilterStage.apply returns an empty list, and
\* FixtureParameterGroupingStage.apply returns a Grouping Result in which every
\* group of the Group Mapping has an empty list and unmatched is empty.
C16_EmptyInputEmptyResult ==
    \A k \in 1..Len(calls) :
        calls[k].input = <<>> =>
            IF k \in DateCalls
            THEN calls[k].result.output = PyList(<<>>)
            ELSE /\ calls[k].result.output.t = "FixtureParameterGroups"
                 /\ DOMAIN calls[k].result.groups
                        = group_names(calls[k].stage.group_mappings)
                 /\ \A g \in DOMAIN calls[k].result.groups :
                        calls[k].result.groups[g] = <<>>
                 /\ calls[k].result.unmatched = <<>>

IsStr(v) == v.t = "str"

\* a keyword argument the annotation defines: days with a list or tuple value
IsDaysList(kw) ==
    Lower(kw.key) = s_days /\ kw.value.t \in {"list", "tuple"}

\* The annotation without its malformed parts: the non-string positional
\* arguments, the keyword arguments that are not a days list, and the
\* non-string entries of a days list are removed.
StripMalformed(m) ==
    LET kws == SelectSeq(m.kwargs, IsDaysList) IN
    Mark(SelectSeq(m.args, IsStr),
         [i \in 1..Len(kws) |->
             [key |-> kws[i].key,
              value |-> [t |-> kws[i].value.t,
                         xs |-> SelectSeq(kws[i].value.xs, IsStr)]]])

HasMalformedPart(m) == m.present /\ StripMalformed(m) # m

\* every part of the annotation is malformed
OnlyMalformed(m) ==
    /\ HasMalformedPart(m)
    /\ StripMalformed(m).args = <<>>
    /\ \A i \in 1..Len(StripMalformed(m).kwargs) :
           StripMalformed(m).kwargs[i].value.xs = <<>>

\* C17: DateFilterStage.apply does not raise on a test whose run_days
\* annotation is malformed (non-string positional arguments, a days value that
\* is no list or tuple, non-string entries in days, unknown keywords): the
\* malformed parts add nothing to the allowed days, so the test is kept or
\* dropped as if they were not there, and kept on every day when every part
\* of the annotation is malformed.
C17_MalformedAnnotationIsNoConstraint ==
    \A k \in DateCalls :
        \A i \in 1..Len(calls[k].input) :
            LET test == calls[k].input[i]
                m == Item[test].mark
                well_formed == allowed_days(StripMalformed(m))
            IN  HasMalformedPart(m) =>
                    /\ raised = ""
                    /\ allowed_days(m) = well_formed
                    /\ InSeq(test, calls[k].result.output.xs)
                           <=> (well_formed = {}
                                \/ weekday(calls[k].stage.current_time) \in well_formed)
                    /\ OnlyMalformed(m) =>
                           InSeq(test, calls[k].result.output.xs)

C17_Witness ==
    \E k \in DateCalls :
        /\ Len(calls[k].input) = 2
        /\ Len(calls[k].result.output.xs) = 1
        /\ OnlyMalformed(Item[calls[k].result.output.xs[1]].mark)
        /\ Len(Item[calls[k].result.output.xs[1]].mark.kwargs) = 2
        /\ \E i \in 1..2 :
               /\ HasMalformedPart(Item[calls[k].input[i]].mark)
               /\ ~OnlyMalformed(Item[calls[k].input[i]].mark)
               /\ ~InSeq(calls[k].input[i], calls[k].result.output.xs)

\* the annotation has a recognized token among its positional arguments and
\* another one in a days list
RecognizedInBothSources(m) ==
    /\ m.present
    /\ \E i \in 1..Len(m.args) : TokenDayNames(m.args[i]) # {}
    /\ \E i \in 1..Len(m.kwargs) :
           /\ IsDaysList(m.kwargs[i])
           /\ \E j \in 1..Len(m.kwargs[i].value.xs) :
                  TokenDayNames(m.kwargs[i].value.xs[j]) # {}

\* C18: the allowed days are the union of the days the positional string
\* arguments name and the days the days=[...] list names, unrecognized tokens
\* dropped: a test with recognized tokens in both is kept by
\* DateFilterStage.apply on exactly the days of that union.
C18_AllowedDaysIsUnionOfSources ==
    \A k \in DateCalls :
        \A i \in 1..Len(calls[k].input) :
            LET test == calls[k].input[i] IN
            RecognizedInBothSources(Item[test].mark) =>
                (InSeq(test, calls[k].result.output.xs)
                 <=> calls[k].stage.current_time \in AllowedDayNames(Item[test].mark))

\* str.upper() and str.capitalize() on ASCII letters, and the token with every
\* second letter in upper case
UpperTable == [c \in {LowerAlpha[i] : i \in 1..26} |->
                  UpperAlpha[CHOOSE i \in 1..26 : LowerAlpha[i] = c]]
UpperChar(c) == IF c \in DOMAIN UpperTable THEN UpperTable[c] ELSE c
Upper(s) == [i \in 1..Len(s) |-> UpperChar(s[i])]
Capitalize(s) == [i \in 1..Len(s) |-> IF i = 1 THEN UpperChar(s[i]) ELSE s[i]]
Alternate(s) == [i \in 1..Len(s) |-> IF i % 2 = 0 THEN UpperChar(s[i]) ELSE s[i]]

\* run_days(token) with one recognized token and nothing else
RecognizedSingleToken(test) ==
    LET m == Item[test].mark IN
    m.present /\ Len(m.args) = 1 /\ m.kwargs = <<>>
    /\ TokenDayNames(m.args[1]) # {}

\* The spellings equivalent to a recognized token: the full name and the
\* abbreviation of its weekday (or "weekend"), in lower case, in upper case,
\* capitalized and in mixed case.
Variants(arg) ==
    LET low == Lower(arg.s)
        names == IF low = s_weekend THEN {s_weekend}
                 ELSE WeekdayTokens[CHOOSE i \in 1..7 : low \in WeekdayTokens[i]]
    IN  UNION {{b, Upper(b), Capitalize(b), Alternate(b)} : b \in names}

\* two different tests whose single tokens are spellings of the same day(s)
EquivalentTokens(t, u) ==
    /\ t # u
    /\ RecognizedSingleToken(t) /\ RecognizedSingleToken(u)
    /\ TokenDayNames(Item[t].mark.args[1]) = TokenDayNames(Item[u].mark.args[1])

\* the tests with a single recognized token all of whose spellings give the
\* allowed days of the token as written, as a positional argument and in a
\* days list
SpellingsAgree ==
    {test \in 1..Len(Item) :
        RecognizedSingleToken(test) =>
            \A v \in Variants(Item[test].mark.args[1]) :
                /\ allowed_days(Mark(<<PyStr(v)>>, <<>>))
                       = allowed_days(Item[test].mark)
                /\ allowed_days(Mark(<<>>,
                       <<[key |-> s_days, value |-> PyList(<<PyStr(v)>>)]>>))
                       = allowed_days(Item[test].mark)}

\* for each test, the tests whose token is another spelling of the same day(s)
Equivalents ==
    [test \in 1..Len(Item) |-> {u \in 1..Len(Item) : EquivalentTokens(test, u)}]

\* C19: the full name, the 3-letter abbreviation and every case variant of a
\* weekday token (and every case variant of "weekend") give the same allowed
\* days, as a positional argument and in a days list, and so the same decision
\* of DateFilterStage.apply on every current day.
C19_TokenVariantsEquivalent ==
    \A k \in DateCalls :
        \A i \in 1..Len(calls[k].input) :
            LET test == calls[k].input[i] IN
            RecognizedSingleToken(test) =>
                /\ test \in SpellingsAgree
                /\ \A u \in Equivalents[test] :
                       /\ InSeq(test, calls[k].result.output.xs)
                              <=> should_run_today(u, weekday(calls[k].stage.current_time))
                       /\ InSeq(u, calls[k].input) =>
                              (InSeq(test, calls[k].result.output.xs)
                               <=> InSeq(u, calls[k].result.output.xs))

C19_Witness ==
    \E k \in DateCalls :
        /\ Len(calls[k].input) = 2
        /\ EquivalentTokens(calls[k].input[1], calls[k].input[2])
        /\ Item[calls[k].input[1]].mark.args # Item[calls[k].input[2]].mark.args
        /\ Len(Item[calls[k].input[1]].mark.args[1].s)
               # Len(Item[calls[k].input[2]].mark.args[1].s)
        /\ calls[k].result.output.xs = calls[k].input

C21_GroupNamesAreMappingKeys ==
    /\ [](\A k \in GroupingCalls :
              /\ DOMAIN calls[k].result.groups
                     = group_names(calls[k].stage.group_mappings)
              /\ stages[k].group_mappings = calls[k].stage.group_mappings)
    /\ [][op' = "apply" =>
              /\ Len(stages') = Len(stages)
              /\ \A k \in 1..Len(stages) :
                     stages[k].kind = "FixtureParameterGroupingStage" =>
                         /\ stages'[k].kind = "FixtureParameterGroupingStage"
                         /\ stages'[k].group_mappings = stages[k].group_mappings]_vars

C21_Witness ==
    \E k \in GroupingCalls :
        /\ Len(calls[k].input) = 2
        /\ calls[k].stage.group_mappings = MappingSpecExample
        /\ calls[k].result.groups["fast"] # <<>>
        /\ calls[k].result.groups["slow"] = <<>>
        /\ calls[k].result.unmatched # <<>>
        /\ stages[k].group_mappings = MappingSpecExample

\* C22: DateFilterStage.apply only reads its input: it requests no tag on any
\* test, the list it was given has the same length, elements and order when it
\* returns, the list it returns is another list, and the collected tests and
\* their annotations are the same after the pipeline's apply as before.
C22_DateFilterOnlyReads ==
    /\ [](\A k \in DateCalls :
              /\ calls[k].result.markers = <<>>
              /\ calls[k].result.tests_after = calls[k].input
              /\ ~calls[k].result.same_object)
    /\ [][op' = "apply" => items' = items]_vars

C22_Witness ==
    \E k \in DateCalls :
        /\ Len(calls[k].input) = 2
        /\ Len(calls[k].result.output.xs) = 1
        /\ calls[k].result.tests_after = calls[k].input
        /\ calls[k].result.markers = <<>>
        /\ ~calls[k].result.same_object
        /\ items = calls[k].input
        /\ \E i \in 1..2 : Item[items[i]].mark.present

====
